---- MODULE Spec2Model ----
(***************************************************************************)
(* Model of the factor-evaluation routines of bagel-factor:                *)
(*   - FactorSort._compute            (single_factor_calculation.py)       *)
(*   - calculate_factor_return_grouping (evaluation/factor_return.py)      *)
(*   - calculate_factor_return_regression (evaluation/factor_return.py)    *)
(*   - FactorRegression._compute      (single_factor_calculation.py)       *)
(*   - calculate_ic_s                 (evaluation/ic.py)                   *)
(*   - _compute_regression_ics_df     (factor_evaluation.py)               *)
(*   - baseline_ic                    (examples/benchmark_ic.py)           *)
(* Tables are functions Dates -> Assets -> value.  A missing value         *)
(* (float('nan')) is the integer NaN; a mean or a difference of means is   *)
(* an exact rational <<numerator, denominator>>, reduced, with             *)
(* denominator 0 standing for not-a-number.  Quantile edges are computed   *)
(* in exact arithmetic, scaled by the number of groups.  A regression      *)
(* coefficient is the exact least-squares solution; a correlation r is     *)
(* kept as the rational r*|r|.                                             *)
(***************************************************************************)
EXTENDS Integers, Sequences, FiniteSets, TLC

\* ---------------------------------------------------------------- bounds
NDates == 2
NAssets == 3
MaxVal == 2
MaxRet == 1
MaxGroups == 3
NPanelDates == 3
NPanelAssets == 2
MaxRows == 3
MaxPeriods == 2
MaxSteps == 2
MaxCalendar == 2
MaxICs == 3
MaxObs == 3
NTableDates == 3
MaxTableRows == 4

\* float('nan')
NaN == -1

Dates == 1..NDates
Assets == 1..NAssets
FVals == {NaN} \cup (0..MaxVal)
RVals == {NaN} \cup (0..MaxRet)
Groups == 2..MaxGroups

VARIABLES
    factor_data,          \* factor value of each asset at each timestamp
    stock_next_returns,   \* next-period return of each asset at each timestamp
    group_number,         \* FactorSort.group_number / group_num
    data_dates,           \* the dates that have rows in the long panel `data`
    rebalance_date_index, \* the rebalance dates handed to the evaluation functions
    regression_method,    \* FactorRegression.regression_method / method
    intercept,            \* FactorRegression.intercept / intercept
    weights,              \* FactorRegression.weights / kwargs['weights']
    changed,              \* the caller has edited the data and called again
    factor_sort,          \* the FactorSort object (or the error its constructor raised)
    grouping,             \* what calculate_factor_return_grouping returned or raised
    regression,           \* what calculate_factor_return_regression returned or raised
    factor_regression,    \* the FactorRegression object (or the error raised)
    ic,                   \* what calculate_ic_s returned or raised
    reg_ics,              \* what _compute_regression_ics_df returned
    baseline,             \* what baseline_ic returned
    panel,                \* the caller's (date, asset) panel, a DataFrame object
    outcome,              \* what the call made on the panel returned or raised
    ic_s,                 \* the frame of information coefficients in hand
    icirs,                \* what each ICIR computation made of ic_s
    ols_args,             \* the arguments of ols_alpha_tstat
    ols_result,           \* what ols_alpha_tstat returned or raised
    diagnostics           \* what diagnose_panel returned

inputs == <<factor_data, stock_next_returns, group_number, data_dates,
            rebalance_date_index, regression_method, intercept, weights>>
outputs == <<factor_sort, grouping, regression, factor_regression, ic, reg_ics,
             baseline>>
statistics == <<ic_s, icirs, ols_args, ols_result, diagnostics>>
vars == <<inputs, changed, outputs, panel, outcome, statistics>>

\* ------------------------------------------------------------ arithmetic
Abs(n) == IF n < 0 THEN -n ELSE n

RECURSIVE GCD(_, _)
GCD(a, b) == IF b = 0 THEN a ELSE GCD(b, a % b)

NaNQ == <<0, 0>>

\* the rational n/d in lowest terms with a positive denominator; d = 0 is not-a-number
Rat(n, d) ==
    IF d = 0 THEN NaNQ
    ELSE LET g == GCD(Abs(n), Abs(d))
             s == IF d < 0 THEN -1 ELSE 1
         IN  <<s * (n \div g), s * (d \div g)>>

IsNaNQ(q) == q[2] = 0

\* a - b on floats: not-a-number as soon as one operand is
RatSub(a, b) ==
    IF IsNaNQ(a) \/ IsNaNQ(b) THEN NaNQ
    ELSE Rat(a[1] * b[2] - b[1] * a[2], a[2] * b[2])

RECURSIVE SumOver(_, _)
SumOver(S, f) ==
    IF S = {} THEN 0
    ELSE LET x == CHOOSE y \in S : TRUE IN f[x] + SumOver(S \ {x}, f)

\* MeanOver with a missing entry counted as an observation of value 0
MeanOverZeroFilled(S, row) ==
    Rat(SumOver({a \in S : row[a] # NaN}, row), Cardinality(S))

\* Series.mean() / DataFrame.mean(axis=1), skipna: mean of the non-missing
\* entries of row restricted to S, not-a-number when there is none
MeanOver(S, row) ==
    LET valid == {a \in S : row[a] # NaN}
    IN  Rat(SumOver(valid, row), Cardinality(valid))

\* ------------------------------------------------------------------ qcut
\* a function constructor is evaluated lazily, once per application; comparing
\* the function evaluates it once and for all
Materialized(f) == IF f = f THEN f ELSE f

\* i-th smallest (0-based) non-missing value of the series x
SortedAt(x, i) ==
    LET valid == {j \in DOMAIN x : x[j] # NaN}
    IN  CHOOSE v \in {x[j] : j \in valid} :
            /\ Cardinality({j \in valid : x[j] < v}) <= i
            /\ i < Cardinality({j \in valid : x[j] <= v})

\* x.quantile(k/q), linear interpolation, times q
QuantileEdge(x, q, k) ==
    LET n == Cardinality({j \in DOMAIN x : x[j] # NaN})
        h == k * (n - 1)
        lo == h \div q
        fr == h % q
    IN  IF fr = 0 THEN q * SortedAt(x, lo)
        ELSE q * SortedAt(x, lo) + fr * (SortedAt(x, lo + 1) - SortedAt(x, lo))

\* x.quantile(np.linspace(0, 1, q + 1)), times q; the quantiles of a series
\* without a value are all not-a-number
QuantileEdges(x, q) ==
    IF \A j \in DOMAIN x : x[j] = NaN THEN [k \in 0..q |-> NaN]
    ELSE Materialized([k \in 0..q |-> QuantileEdge(x, q, k)])

\* pd.qcut raises ValueError("Bin edges must be unique") when two quantile
\* edges coincide
QcutRaises(x, q) ==
    LET bins == QuantileEdges(x, q)
    IN  \E j, k \in 0..q : j < k /\ bins[j] = bins[k]

\* pd.qcut(x, q, labels=False): bins.searchsorted(x, side='left'), the lowest
\* edge included in the first bin, minus 1; labels 0..q-1, NaN for a missing x
QcutLabels(x, q) ==
    LET bins == QuantileEdges(x, q)
    IN  Materialized([j \in DOMAIN x |->
            IF x[j] = NaN THEN NaN
            ELSE IF q * x[j] = bins[0] THEN 0
            ELSE Cardinality({k \in 0..q : bins[k] < q * x[j]}) - 1])

\* ------------------------------------------------------------ FactorSort
\* DataFrame.rank(axis=1, method='first'): rank within the timestamp, ties in
\* column order, a missing value keeps no rank
RankFirst(row, a) ==
    IF row[a] = NaN THEN NaN
    ELSE 1 + Cardinality({b \in Assets :
                 /\ row[b] # NaN
                 /\ (row[b] < row[a] \/ (row[b] = row[a] /\ b < a))})

\* ranked_data.stack(): one series over every (timestamp, asset)
StackedRanks(fd) ==
    Materialized([p \in Dates \X Assets |-> RankFirst(fd[p[1]], p[2])])

\* (pd.qcut(ranked_data.stack(), group_number, labels=False) + 1).unstack()
GroupLabels(fd, q) ==
    LET lab == QcutLabels(StackedRanks(fd), q)
    IN  [d \in Dates |-> [a \in Assets |->
            IF lab[<<d, a>>] = NaN THEN NaN ELSE lab[<<d, a>>] + 1]]

\* stock_next_returns.where(group_labels == group).mean(axis=1), every group
PortfolioNextReturns(labels, ret, q) ==
    [d \in Dates |-> [g \in 1..q |->
        MeanOver({a \in Assets : labels[d][a] = g}, ret[d])]]

\* portfolio_next_returns[group_number] - portfolio_next_returns[1]
HighMinusLow(pnr, q) ==
    [d \in Dates |-> RatSub(pnr[d][q], pnr[d][1])]

NoObject == [state |-> "absent", group_labels |-> <<>>,
             portfolio_next_returns |-> <<>>, factor_next_returns |-> <<>>]

\* FactorSort(factor_data, stock_next_returns, group_number): __post_init__
\* runs _compute; the constructor raises what pd.qcut raises
FactorSortCompute(fd, ret, q) ==
    IF QcutRaises(StackedRanks(fd), q)
    THEN [NoObject EXCEPT !.state = "ValueError"]
    ELSE LET labels == Materialized(GroupLabels(fd, q))
             pnr == Materialized(PortfolioNextReturns(labels, ret, q))
         IN  [state |-> "built", group_labels |-> labels,
              portfolio_next_returns |-> pnr,
              factor_next_returns |-> HighMinusLow(pnr, q)]

\* -------------------------------------- calculate_factor_return_grouping
\* pd.qcut(current_data[target], q=group_num, labels=False) of one date
DateLabels(fd, date, q) == QcutLabels(fd[date], q)

\* current_data.groupby(current_group)[prediction].mean(): one entry per label
\* that occurs at the date, label ascending
QuantileReturns(fd, ret, date, q) ==
    LET lab == Materialized(DateLabels(fd, date, q))
        present == {g \in 0..(q - 1) : \E a \in Assets : lab[a] = g}
    IN  [g \in present |-> MeanOver({a \in Assets : lab[a] = g}, ret[date])]

RECURSIVE AppendNew(_, _, _, _)
\* append to cols the labels of S (ascending, from g up to q-1) it lacks
AppendNew(cols, S, g, q) ==
    IF g >= q THEN cols
    ELSE IF g \in S /\ \A i \in 1..Len(cols) : cols[i] # g
         THEN AppendNew(Append(cols, g), S, g + 1, q)
         ELSE AppendNew(cols, S, g + 1, q)

RECURSIVE FrameColumns(_, _, _, _, _)
\* pd.DataFrame(factor_returns, index=...): the columns are the union of the
\* series' indexes in order of first appearance
FrameColumns(fd, rdi, i, q, cols) ==
    IF i > Len(rdi) THEN cols
    ELSE LET lab == DateLabels(fd, rdi[i], q)
         IN  FrameColumns(fd, rdi, i + 1, q,
                 AppendNew(cols, {lab[a] : a \in Assets} \ {NaN}, 0, q))

\* one row of next_period_return with its HML entry:
\* iloc[:, group_num - 1] - iloc[:, 0] are the columns at those positions
FrameRow(fd, ret, date, q, cols) ==
    LET qr == QuantileReturns(fd, ret, date, q)
        cell(g) == IF g \in DOMAIN qr THEN qr[g] ELSE NaNQ
        vals == [i \in 1..Len(cols) |-> cell(cols[i])]
    IN  [date |-> date, values |-> vals, HML |-> RatSub(vals[q], vals[1])]

RowHasNaN(r) ==
    IsNaNQ(r.HML) \/ \E i \in 1..Len(r.values) : IsNaNQ(r.values[i])

NotCalled == [state |-> "absent", columns |-> <<>>, rows |-> <<>>]

\* data.xs(date, level='date') raises KeyError for a date without rows
CalculateFactorReturnGrouping(fd, ret, present, rdi, q) ==
    LET bad == {i \in 1..Len(rdi) : rdi[i] \notin present \/ QcutRaises(fd[rdi[i]], q)}
        first == CHOOSE i \in bad : \A j \in bad : i <= j
    IN  IF bad # {}
        THEN [NotCalled EXCEPT !.state =
                 IF rdi[first] \notin present THEN "KeyError" ELSE "ValueError"]
        ELSE LET cols == FrameColumns(fd, rdi, 1, q, <<>>)
             IN  IF Len(cols) < q
                 THEN [NotCalled EXCEPT !.state = "IndexError"]
                 ELSE LET all == [i \in 1..Len(rdi) |->
                                     FrameRow(fd, ret, rdi[i], q, cols)]
                      IN  [state |-> "returned", columns |-> cols,
                           rows |-> SelectSeq(all, LAMBDA r : ~RowHasNaN(r))]

\* ------------------------------------------------------------ regression
RatAdd(a, b) ==
    IF IsNaNQ(a) \/ IsNaNQ(b) THEN NaNQ
    ELSE Rat(a[1] * b[2] + b[1] * a[2], a[2] * b[2])

RatMul(a, b) ==
    IF IsNaNQ(a) \/ IsNaNQ(b) THEN NaNQ ELSE Rat(a[1] * b[1], a[2] * b[2])

\* the method names the regression code has a branch for
KnownMethods == {"OLS", "WLS", "RLM"}

\* the method names the callers of this model pass: the two with a closed-form
\* fit, and one the code has no branch for ("RLM", an iterative robust fit,
\* is never passed)
Methods == {"OLS", "WLS", "GLS"}

\* weights=None
NoWeights == [given |-> FALSE, index |-> {}, row |-> <<>>]

\* x.notna() & y.notna() / reg_data = current_data[[target, prediction]].dropna()
ValidObs(x, y) == {a \in Assets : x[a] # NaN /\ y[a] # NaN}

\* params of the least-squares fit of y on x (and a constant) over the
\* observations S with weights w: the normal equations, and the minimum-norm
\* solution (pinv) when they are singular
LeastSquares(x, y, w, S, const) ==
    LET s0 == SumOver(S, w)
        sx == SumOver(S, [a \in Assets |-> w[a] * x[a]])
        sy == SumOver(S, [a \in Assets |-> w[a] * y[a]])
        sxx == SumOver(S, [a \in Assets |-> w[a] * x[a] * x[a]])
        sxy == SumOver(S, [a \in Assets |-> w[a] * x[a] * y[a]])
        det == s0 * sxx - sx * sx
        c == sx \div s0
    IN  IF ~const
        THEN [x |-> IF sxx = 0 THEN Rat(0, 1) ELSE Rat(sxy, sxx), const |-> NaNQ]
        ELSE IF det # 0
        THEN [x |-> Rat(s0 * sxy - sx * sy, det),
              const |-> Rat(sy * sxx - sx * sxy, det)]
        ELSE [x |-> Rat(sy * c, s0 * (c * c + 1)),
              const |-> Rat(sy, s0 * (c * c + 1))]

UnitWeights == [a \in Assets |-> 1]

\* sm.add_constant(X), has_constant='skip': no constant is added when the
\* column is already a non-zero constant
AddsConstant(x, S) ==
    ~(\E a \in S : x[a] # 0 /\ \A b \in S : x[b] = x[a])

RegressionNotCalled ==
    [state |-> "absent", error |-> "", processed |-> 0, rows |-> <<>>]

RECURSIVE RegressionLoop(_, _, _, _, _, _, _, _, _)
\* the loop of calculate_factor_return_regression from position i on; coefs
\* is the list factor_returns, one <<date, coefficient>> per appended entry
RegressionLoop(fd, ret, present, rdi, method, icpt, w, i, coefs) ==
    IF i > Len(rdi) THEN [state |-> "looped", error |-> "", processed |-> i - 1,
                          rows |-> coefs]
    ELSE LET date == rdi[i]
             S == ValidObs(fd[date], ret[date])
         IN  IF date \notin present
             THEN RegressionLoop(fd, ret, present, rdi, method, icpt, w, i + 1, coefs)
             ELSE IF S = {}
             THEN RegressionLoop(fd, ret, present, rdi, method, icpt, w, i + 1,
                      Append(coefs, [date |-> date, factor_return |-> NaNQ]))
             ELSE IF method \notin KnownMethods
             THEN [state |-> "raised",
                   error |-> "ValueError: Unknown regression method",
                   processed |-> i - 1, rows |-> <<>>]
             ELSE IF method = "WLS"
             THEN [state |-> "raised",
                   error |-> IF w.given
                             THEN "TypeError: got multiple values for keyword argument 'weights'"
                             ELSE "ValueError: WLS method requires \"weights\" in kwargs",
                   processed |-> i - 1, rows |-> <<>>]
             ELSE LET fit == LeastSquares(fd[date], ret[date], UnitWeights, S,
                                 icpt /\ AddsConstant(fd[date], S))
                  IN  RegressionLoop(fd, ret, present, rdi, method, icpt, w, i + 1,
                          Append(coefs, [date |-> date, factor_return |-> fit.x]))

\* calculate_factor_return_regression: the loop, then
\* pd.DataFrame({'factor_return': factor_returns}, index=rebalance_date_index),
\* which needs one entry per rebalance date, then dropna()
CalculateFactorReturnRegression(fd, ret, present, rdi, method, icpt, w) ==
    LET r == RegressionLoop(fd, ret, present, rdi, method, icpt, w, 1, <<>>)
    IN  IF r.state = "raised" THEN r
        ELSE IF Len(r.rows) # Len(rdi)
        THEN [state |-> "raised",
              error |-> "ValueError: Length of values does not match length of index",
              processed |-> Len(rdi), rows |-> <<>>]
        ELSE [state |-> "returned", error |-> "", processed |-> Len(rdi),
              rows |-> SelectSeq([i \in 1..Len(rdi) |->
                                     [date |-> rdi[i],
                                      factor_return |-> r.rows[i].factor_return]],
                                 LAMBDA row : ~IsNaNQ(row.factor_return))]

\* ------------------------------------------------------ FactorRegression
\* WeightsFor with the caller's weights also used for a date that has no row
WeightsForAllDates(w, date) ==
    IF w.given THEN w.row ELSE [a \in Assets |-> a]

\* the weights of one date's fit: self.weights.loc[date] when weights are
\* given and have a row for the date, else WLS's default weights of 1
WeightsFor(w, date) ==
    IF w.given /\ date \in w.index THEN w.row ELSE UnitWeights

NoRegressionObject ==
    [state |-> "absent", error |-> "", processed |-> 0,
     factor_next_returns |-> <<>>, intercept_values |-> <<>>,
     residuals |-> <<>>, regression_fits |-> <<>>]

\* one pass of the loop of FactorRegression._compute
DateFit(fd, ret, date, method, icpt, w) ==
    LET S == ValidObs(fd[date], ret[date])
        fit == LeastSquares(fd[date], ret[date],
                   IF method = "WLS" THEN WeightsFor(w, date) ELSE UnitWeights,
                   S, icpt)
        base == IF icpt THEN fit.const ELSE Rat(0, 1)
    IN  IF Cardinality(S) < 2
        THEN [fitted |-> FALSE, factor_return |-> NaNQ, intercept |-> NaNQ,
              resid |-> [a \in Assets |-> NaNQ]]
        ELSE [fitted |-> TRUE, factor_return |-> fit.x,
              intercept |-> fit.const,
              resid |-> [a \in Assets |->
                  IF a \in S
                  THEN RatSub(Rat(ret[date][a], 1),
                              RatAdd(RatMul(fit.x, Rat(fd[date][a], 1)), base))
                  ELSE NaNQ]]

RECURSIVE FitDates(_, _)
\* regression_fits: the dates whose result was appended, in loop order
FitDates(fits, d) ==
    IF d > NDates THEN <<>>
    ELSE (IF fits[d].fitted THEN <<d>> ELSE <<>>) \o FitDates(fits, d + 1)

\* FactorRegression(...): __post_init__ runs _compute; the method name is
\* looked at only for a date with at least 2 valid observations
FactorRegressionCompute(fd, ret, method, icpt, w) ==
    LET fitting == {d \in Dates : Cardinality(ValidObs(fd[d], ret[d])) >= 2}
        first == CHOOSE d \in fitting : \A e \in fitting : d <= e
    IN  IF method \notin KnownMethods /\ fitting # {}
        THEN [NoRegressionObject EXCEPT
                 !.state = "raised",
                 !.error = "ValueError: Unknown regression_method",
                 !.processed = first - 1]
        ELSE LET fits == Materialized([d \in Dates |-> DateFit(fd, ret, d, method, icpt, w)])
             IN  [state |-> "built", error |-> "", processed |-> NDates,
                  factor_next_returns |-> [d \in Dates |-> fits[d].factor_return],
                  intercept_values |-> [d \in Dates |-> fits[d].intercept],
                  residuals |-> [d \in Dates |-> fits[d].resid],
                  regression_fits |-> FitDates(fits, 1)]

\* -------------------------------------------------------------------- IC
Sign(n) == IF n > 0 THEN 1 ELSE IF n < 0 THEN -1 ELSE 0

\* Pearson correlation of x and y over the observations S, kept exact as the
\* signed square r*|r| (one-to-one with r); NaN without 2 observations or
\* when either side has no variance
Pearson(x, y, S) ==
    LET n == Cardinality(S)
        sx == SumOver(S, x)
        sy == SumOver(S, y)
        cov == n * SumOver(S, [a \in DOMAIN x |-> x[a] * y[a]]) - sx * sy
        vx == n * SumOver(S, [a \in DOMAIN x |-> x[a] * x[a]]) - sx * sx
        vy == n * SumOver(S, [a \in DOMAIN x |-> y[a] * y[a]]) - sy * sy
    IN  IF n < 2 \/ vx * vy = 0 THEN NaNQ
        ELSE Rat(Sign(cov) * cov * cov, vx * vy)

\* rank(method="average") over the observations S, doubled to stay integral
AverageRank(x, S) ==
    Materialized([a \in DOMAIN x |->
        2 * Cardinality({b \in S : x[b] < x[a]})
          + Cardinality({b \in S : x[b] = x[a]}) + 1])

\* Series.corr(other, method=...): pairs with a missing side are left out;
\* Spearman is Pearson on the average ranks
SeriesCorr(x, y, method) ==
    LET S == ValidObs(x, y)
    IN  IF method = "spearman"
        THEN Pearson(AverageRank(x, S), AverageRank(y, S), S)
        ELSE Pearson(x, y, S)

ICMethods == {"spearman", "pearson"}

\* DateIC reading the cross-section of the following date, where there is one
DateICOfNextDate(fd, ret, date, method) ==
    LET next == IF date < NDates THEN date + 1 ELSE date
    IN  SeriesCorr(fd[next], ret[next], method)

\* the body of the loop of calculate_ic_s for one date present in data
DateIC(fd, ret, date, method) == SeriesCorr(fd[date], ret[date], method)

ICNotCalled == [state |-> "absent", method |-> "", rows |-> <<>>]

\* pd.Series(values, index=...).dropna()
DropNaN(series) == SelectSeq(series, LAMBDA row : ~IsNaNQ(row.ic))

\* calculate_ic_s(data, target, prediction, rebalance_date_index, method)
CalculateICs(fd, ret, present, rdi, method) ==
    IF \E i \in DOMAIN rdi : rdi[i] \notin present
    THEN [state |-> "KeyError", method |-> method, rows |-> <<>>]
    ELSE IF method \notin ICMethods /\ rdi # <<>>
    THEN [state |-> "ValueError", method |-> method, rows |-> <<>>]
    ELSE [state |-> "returned", method |-> method,
          rows |-> DropNaN([i \in DOMAIN rdi |->
                      [date |-> rdi[i], ic |-> DateIC(fd, ret, rdi[i], method)]])]

RegressionICsNotCalled == [state |-> "absent", pearson |-> <<>>, spearman |-> <<>>]

\* one pass of the loop of _compute_regression_ics_df
RegressionDateIC(fd, ret, date, method) ==
    IF Cardinality(ValidObs(fd[date], ret[date])) < 2 THEN NaNQ
    ELSE SeriesCorr(fd[date], ret[date], method)

\* _compute_regression_ics_df(factor_regression): one row per date of
\* factor_next_returns.index, read from the object's own two tables
ComputeRegressionICs(fd, ret) ==
    [state |-> "returned",
     pearson |-> [d \in Dates |-> RegressionDateIC(fd, ret, d, "pearson")],
     spearman |-> [d \in Dates |-> RegressionDateIC(fd, ret, d, "spearman")]]

RECURSIVE GroupsInOrder(_, _, _, _)
\* df.groupby(level="date", sort=False).apply(_ic) after df = panel.dropna():
\* one entry per date that still has a row, in the order of the panel
GroupsInOrder(fd, ret, method, d) ==
    IF d > NDates THEN <<>>
    ELSE LET S == ValidObs(fd[d], ret[d])
         IN  (IF S = {} THEN <<>>
              ELSE <<[date |-> d,
                      ic |-> IF Cardinality(S) < 2 THEN NaNQ
                             ELSE IF method = "spearman"
                             THEN Pearson(AverageRank(fd[d], S), AverageRank(ret[d], S), S)
                             ELSE Pearson(fd[d], ret[d], S)]>>)
             \o GroupsInOrder(fd, ret, method, d + 1)

\* baseline_ic(panel, factor, label, method)
BaselineIC(fd, ret, method) ==
    [state |-> "returned", method |-> method,
     rows |-> GroupsInOrder(fd, ret, method, 1)]

\* ------------------------------------------------------------------ panel
PanelDates == 1..NPanelDates
PanelAssets == 1..NPanelAssets

\* the name of the one data column of the panels
PanelColumns == {"value"}

\* the index level names of a canonical panel
CanonicalNames == <<"date", "asset">>

\* a DataFrame object: its identity, its index level names, and its rows in
\* order, each an index key (date, asset) with the value of the column
NoPanel == [id |-> -1, names |-> <<>>, rows |-> <<>>]

PanelRow == [date : PanelDates, asset : PanelAssets, value : RVals]

\* the key (date, asset) of each row is unique
UniqueKeys(rows) ==
    \A i, j \in DOMAIN rows :
        (rows[i].date = rows[j].date /\ rows[i].asset = rows[j].asset) => i = j

\* the row lists of the panels, in any row order
PanelRows ==
    {rows \in UNION {[1..n -> PanelRow] : n \in 0..MaxRows} : UniqueKeys(rows)}

\* validate_panel(panel) passes: the index levels are named ("date", "asset")
ValidatePanel(p) == p.names = CanonicalNames

NoError == [type |-> "", missing |-> {}]

SchemaError == [type |-> "SchemaError", missing |-> {}]

NotRun == [op |-> "", state |-> "absent", error |-> NoError, caller |-> NoPanel,
           out |-> NoPanel, calls |-> <<>>]

\* a call that raised: nothing is returned
Raises(op, p, err, calls) ==
    [op |-> op, state |-> "raised", error |-> err, caller |-> p, out |-> NoPanel,
     calls |-> calls]

\* a call that returned the DataFrame out, leaving the caller's object as p
Returns(op, p, out, calls) ==
    [op |-> op, state |-> "returned", error |-> NoError, caller |-> p, out |-> out,
     calls |-> calls]

\* panel.copy(): a new object with the same index and values
Copy(p, id) == [p EXCEPT !.id = id]

\* the positions of the rows of row i's asset, up to and including row i
GroupUpTo(rows, i) == {j \in 1..i : rows[j].asset = rows[i].asset}

\* groupby(level="asset", sort=False).shift(periods): each row takes the value
\* of the row `periods` places before it among the rows of its asset, in row
\* order (after it for negative periods), or not-a-number when there is none
GroupShift(rows, periods) ==
    [i \in DOMAIN rows |->
        LET at == Cardinality(GroupUpTo(rows, i)) - periods
            from == {j \in DOMAIN rows :
                        /\ rows[j].asset = rows[i].asset
                        /\ Cardinality(GroupUpTo(rows, j)) = at}
        IN  [rows[i] EXCEPT !.value =
                IF from = {} THEN NaN ELSE rows[CHOOSE j \in from : TRUE].value]]

\* LagByAsset lagging the requested columns the panel has, without a check
\* for those it lacks
LagExistingColumns(p, columns, periods, id) ==
    IF ~ValidatePanel(p) THEN Raises("lag_by_asset", p, SchemaError, <<>>)
    ELSE Returns("lag_by_asset", p,
                 [Copy(p, id) EXCEPT !.rows =
                     IF "value" \in columns THEN GroupShift(p.rows, periods)
                     ELSE p.rows],
                 <<>>)

\* lag_by_asset(panel, columns, periods=periods); id is the identity of the
\* object made by panel.copy()
LagByAsset(p, columns, periods, id) ==
    IF ~ValidatePanel(p) THEN Raises("lag_by_asset", p, SchemaError, <<>>)
    ELSE IF columns \ PanelColumns # {}
    THEN Raises("lag_by_asset", p,
                [type |-> "KeyError", missing |-> columns \ PanelColumns], <<>>)
    ELSE Returns("lag_by_asset", p,
                 [Copy(p, id) EXCEPT !.rows =
                     IF "value" \in columns THEN GroupShift(p.rows, periods)
                     ELSE p.rows],
                 <<>>)

\* ------------------------------------------------------ align_to_calendar
RECURSIVE Ascending(_)
\* the elements of a set of dates in ascending order
Ascending(S) ==
    IF S = {} THEN <<>>
    ELSE LET least == CHOOSE d \in S : \A e \in S : d <= e
         IN  <<least>> \o Ascending(S \ {least})

\* the trade calendar as given, kept as it is
CalendarAsGiven(calendar) == calendar

\* pd.DatetimeIndex(trade_calendar).sort_values().unique()
SortedCalendar(calendar) ==
    Ascending({calendar[i] : i \in DOMAIN calendar})

\* panel.index.get_level_values("asset"): the asset of each row, repeated as
\* often as it appears
AssetOfEachRow(rows) == [i \in DOMAIN rows |-> rows[i].asset]

\* panel.index.get_level_values("asset").unique(): order of first appearance
UniqueAssets(rows) ==
    LET first == {i \in DOMAIN rows : \A j \in 1..(i - 1) : rows[j].asset # rows[i].asset}
    IN  [k \in 1..Cardinality(first) |->
            rows[CHOOSE i \in first : Cardinality({j \in first : j <= i}) = k].asset]

\* panel.reindex(target_index), target_index = MultiIndex.from_product([cal,
\* assets]): one row per target key, with the panel's value for the key or
\* not-a-number when the panel has no such row
Reindex(rows, cal, assets) ==
    [k \in 1..(Len(cal) * Len(assets)) |->
        LET d == cal[((k - 1) \div Len(assets)) + 1]
            a == assets[((k - 1) % Len(assets)) + 1]
            at == {i \in DOMAIN rows : rows[i].date = d /\ rows[i].asset = a}
        IN  [date |-> d, asset |-> a,
             value |-> IF at = {} THEN NaN ELSE rows[CHOOSE i \in at : TRUE].value]]

\* groupby(level="asset", sort=False).ffill(): a missing value takes the last
\* non-missing value before it among the rows of its asset, in row order
GroupFfill(rows) ==
    [i \in DOMAIN rows |->
        LET known == {j \in 1..i : rows[j].asset = rows[i].asset /\ rows[j].value # NaN}
        IN  [rows[i] EXCEPT !.value =
                IF known = {} THEN NaN
                ELSE rows[CHOOSE j \in known : \A l \in known : l <= j].value]]

AlignMethods == {"raw", "ffill"}

\* align_to_calendar(panel, trade_calendar, method=method); reindex makes the
\* object id, ffill the object id + 1
AlignToCalendar(p, calendar, method, id) ==
    IF ~ValidatePanel(p) THEN Raises("align_to_calendar", p, SchemaError, <<>>)
    ELSE LET out == Reindex(p.rows, SortedCalendar(calendar), UniqueAssets(p.rows))
         IN  IF method = "ffill"
             THEN Returns("align_to_calendar", p,
                          [id |-> id + 1, names |-> CanonicalNames,
                           rows |-> GroupFfill(out)], <<>>)
             ELSE Returns("align_to_calendar", p,
                          [id |-> id, names |-> CanonicalNames, rows |-> out], <<>>)

\* ------------------------------------------------------------ standardize
\* ZScore taking mean and standard deviation over the whole column
ZScorePooled(rows, G, i) ==
    LET valid == {j \in DOMAIN rows : rows[j].value # NaN}
        n == Cardinality(valid)
        sum == SumOver(valid, [j \in DOMAIN rows |-> rows[j].value])
        squares == SumOver(valid, [j \in DOMAIN rows |-> rows[j].value * rows[j].value])
        dev == n * rows[i].value - sum
    IN  IF rows[i].value = NaN \/ n < 2 THEN NaNQ
        ELSE Rat(Sign(dev) * dev * dev * (n - 1), n * (n * squares - sum * sum))

\* z_score(x) = (x - x.mean()) / x.std(ddof=1) of the entry x[i] of one group,
\* kept exact as the signed square z*|z|; not-a-number for a missing entry,
\* a group without 2 values, or a group without variance
ZScore(rows, G, i) ==
    LET valid == {j \in G : rows[j].value # NaN}
        n == Cardinality(valid)
        sum == SumOver(valid, [j \in DOMAIN rows |-> rows[j].value])
        squares == SumOver(valid, [j \in DOMAIN rows |-> rows[j].value * rows[j].value])
        dev == n * rows[i].value - sum
    IN  IF rows[i].value = NaN \/ n < 2 THEN NaNQ
        ELSE Rat(Sign(dev) * dev * dev * (n - 1), n * (n * squares - sum * sum))

\* standardize(data, "value"): result = data.copy(), then
\* result["value"] = result.groupby('date')["value"].transform(z_score)
Standardize(p, id) ==
    Returns("standardize", p,
            [Copy(p, id) EXCEPT !.rows =
                [i \in DOMAIN p.rows |->
                    [p.rows[i] EXCEPT !.value =
                        ZScore(p.rows, {j \in DOMAIN p.rows : p.rows[j].date = p.rows[i].date}, i)]]],
            <<>>)

\* --------------------------------------------------------------- Pipeline
\* the transforms given to a Pipeline: step.transform(panel) is
\* lag_by_asset(panel, step.columns, periods=step.periods)
Steps ==
    [columns : {{"value"}, {"x"}, {"y"}}, periods : {1}]

\* NextInput handing every step the caller's panel
NextInputCallers(first, out) == first

\* out = step.transform(out): what the next step is given
NextInput(first, out) == out

\* Propagate swallowing the error and returning the panel reached so far
PropagatePartial(p, r, calls) ==
    Returns("Pipeline.transform", p, calls[Len(calls)].input, calls)

\* an error raised by a step leaves Pipeline.transform as it is
Propagate(p, r, calls) == Raises("Pipeline.transform", p, r.error, calls)

RECURSIVE PipelineLoop(_, _, _, _, _)
\* the loop of Pipeline.transform from step i on, out being the current panel
\* and calls the transform calls made so far
PipelineLoop(p, steps, i, out, calls) ==
    IF i > Len(steps) THEN Returns("Pipeline.transform", p, out, calls)
    ELSE LET r == LagByAsset(out, steps[i].columns, steps[i].periods, p.id + i)
             made == Append(calls, [step |-> i, input |-> out])
         IN  IF r.state = "raised" THEN Propagate(p, r, made)
             ELSE PipelineLoop(p, steps, i + 1, NextInput(p, r.out), made)

\* Pipeline(steps).transform(panel)
PipelineTransform(p, steps) == PipelineLoop(p, steps, 1, p, <<>>)

\* ------------------------------------ ensure_panel_index, diagnose_panel
\* pd.Timedelta(days=7): the gap diagnose_panel reports in daily data
GapDays == 7

\* the days the flat tables are dated: consecutive days, and one day more
\* than GapDays after the last of them
TableDates == (1..NTableDates) \cup {NTableDates + GapDays + 1}

TableVals == {NaN, 0}

TableRow == [date : TableDates, asset : PanelAssets, value : TableVals]

\* the row lists of the flat tables: any order, a (date, asset) pair may
\* occur more than once
Tables == UNION {[1..n -> TableRow] : n \in 0..MaxTableRows}

\* the index key of r comes before that of s
KeyLess(r, s) == r.date < s.date \/ (r.date = s.date /\ r.asset < s.asset)

RECURSIVE SortIndex(_)
\* sort_index(): ascending (date, asset), rows of equal key in their order
SortIndex(rows) ==
    IF rows = <<>> THEN <<>>
    ELSE LET r == rows[Len(rows)]
             rest == SortIndex(SubSeq(rows, 1, Len(rows) - 1))
         IN  SelectSeq(rest, LAMBDA s : ~KeyLess(r, s)) \o <<r>>
                 \o SelectSeq(rest, LAMBDA s : KeyLess(r, s))

\* ensure_panel_index(table, date_col=date_col, sort=sort) on a flat table
\* with the columns "date", "asset" and "value"; the day numbers stand for
\* the parsed timestamps. duplicates is what is done with a repeated
\* (date, asset) key: "raise" a SchemaError, or "keep" the rows, which is
\* what test_diagnose_panel_duplicates needs of it
EnsurePanelIndex(table, date_col, sort, duplicates, id) ==
    IF date_col # "date" THEN Raises("ensure_panel_index", table, SchemaError, <<>>)
    ELSE IF ~UniqueKeys(table.rows) /\ duplicates = "raise"
    THEN Raises("ensure_panel_index", table, SchemaError, <<>>)
    ELSE Returns("ensure_panel_index", table,
                 [id |-> id, names |-> CanonicalNames,
                  rows |-> IF sort THEN SortIndex(table.rows) ELSE table.rows],
                 <<>>)

\* panel.index.is_monotonic_increasing
IsMonotonicIncreasing(rows) ==
    \A i \in 1..(Len(rows) - 1) : ~KeyLess(rows[i + 1], rows[i])

\* Duplicated comparing each row with the row before it only
DuplicatedAdjacent(rows) ==
    {i \in DOMAIN rows :
        \E j \in {i - 1} \cap DOMAIN rows :
            rows[j].date = rows[i].date /\ rows[j].asset = rows[i].asset}

\* panel.index.duplicated(): the rows whose key occurred on an earlier row
Duplicated(rows) ==
    {i \in DOMAIN rows :
        \E j \in 1..(i - 1) :
            rows[j].date = rows[i].date /\ rows[j].asset = rows[i].asset}

\* panel[col].isna().sum() / len(panel), 0.0 for an empty panel
MissingPct(rows) ==
    IF rows = <<>> THEN Rat(0, 1)
    ELSE Rat(Cardinality({i \in DOMAIN rows : rows[i].value = NaN}), Len(rows))

RECURSIVE SortValues(_)
\* Series.sort_values() on integers
SortValues(series) ==
    IF series = <<>> THEN <<>>
    ELSE LET v == series[Len(series)]
             rest == SortValues(SubSeq(series, 1, Len(series) - 1))
         IN  SelectSeq(rest, LAMBDA w : w <= v) \o <<v>>
                 \o SelectSeq(rest, LAMBDA w : w > v)

\* dates_unique.diff().dropna(): the gaps between consecutive distinct dates
DateDiffs(rows) ==
    LET dates == Ascending({rows[i].date : i \in DOMAIN rows})
    IN  [i \in 1..(Len(dates) - 1) |-> dates[i + 1] - dates[i]]

\* diffs.median(), doubled to stay integral
DoubledMedian(diffs) ==
    LET sorted == SortValues(diffs)
        n == Len(sorted)
    IN  IF n % 2 = 1 THEN 2 * sorted[(n + 1) \div 2]
        ELSE sorted[n \div 2] + sorted[n \div 2 + 1]

\* len(large_gaps) where the data looks daily (0.8 < median gap < 1.5 days),
\* 0 otherwise
LargeGaps(rows) ==
    LET diffs == DateDiffs(rows)
    IN  IF diffs = <<>> THEN 0
        ELSE IF 5 * DoubledMedian(diffs) > 8 /\ DoubledMedian(diffs) < 3
        THEN Cardinality({i \in DOMAIN diffs : diffs[i] > GapDays})
        ELSE 0

NoDiagnostics ==
    [state |-> "absent", of |-> NoPanel, is_valid_index |-> FALSE,
     is_sorted |-> FALSE, has_duplicates |-> FALSE, n_dates |-> 0, n_assets |-> 0,
     n_rows |-> 0, missing_data_pct |-> NaNQ, warnings |-> <<>>]

\* diagnose_panel(panel); a warning is kept as its kind and the count it
\* names
DiagnosePanel(p) ==
    LET rows == p.rows
        is_valid_index == Len(p.names) = 2 /\ p.names = CanonicalNames
        is_sorted == IsMonotonicIncreasing(rows)
        n_dups == Cardinality(Duplicated(rows))
        n_rows == Len(rows)
        sized == is_valid_index /\ n_rows > 0
        n_dates == IF sized THEN Cardinality({rows[i].date : i \in DOMAIN rows}) ELSE 0
        n_assets == IF sized THEN Cardinality({rows[i].asset : i \in DOMAIN rows}) ELSE 0
        pct == MissingPct(rows)
        gaps == IF is_valid_index /\ n_dates > 1 THEN LargeGaps(rows) ELSE 0
    IN  [state |-> "returned", of |-> p,
         is_valid_index |-> is_valid_index,
         is_sorted |-> is_sorted,
         has_duplicates |-> n_dups > 0,
         n_dates |-> n_dates, n_assets |-> n_assets, n_rows |-> n_rows,
         missing_data_pct |-> pct,
         warnings |->
             (IF ~is_valid_index THEN <<[kind |-> "index", count |-> 0]>> ELSE <<>>)
             \o (IF ~is_sorted THEN <<[kind |-> "sorted", count |-> 0]>> ELSE <<>>)
             \o (IF n_dups > 0 THEN <<[kind |-> "duplicates", count |-> n_dups]>>
                 ELSE <<>>)
             \o (IF 2 * pct[1] > pct[2] THEN <<[kind |-> "missing", count |-> 0]>>
                 ELSE <<>>)
             \o (IF gaps > 0 THEN <<[kind |-> "gaps", count |-> gaps]>> ELSE <<>>)]

\* --------------------------------------------------------- impute_missing
ImputeMethods == {"fill_mean", "fill_median", "fill_zero"}

\* the value handed to fillna for the group G of rows: x.mean(), x.median()
\* (both over the non-missing values, not-a-number without any) or 0
FillValue(rows, G, method) ==
    LET known == SelectSeq([i \in DOMAIN rows |-> IF i \in G THEN rows[i].value ELSE NaN],
                           LAMBDA v : v # NaN)
    IN  IF method = "fill_zero" THEN Rat(0, 1)
        ELSE IF known = <<>> THEN NaNQ
        ELSE IF method = "fill_mean"
        THEN Rat(SumOver(DOMAIN known, known), Len(known))
        ELSE Rat(DoubledMedian(known), 2)

\* Fill filling with 0 whatever the method
FillWithZero(rows, G, i, method) ==
    IF rows[i].value # NaN THEN Rat(rows[i].value, 1) ELSE Rat(0, 1)

\* method(x)[i] = x.fillna(...)[i] for the row i of the group G
Fill(rows, G, i, method) ==
    IF rows[i].value # NaN THEN Rat(rows[i].value, 1) ELSE FillValue(rows, G, method)

\* impute_missing(data, "value", method=method): result = data.copy(), then
\* result["value"] = result.groupby('date')["value"].transform(method)
ImputeMissing(p, method, id) ==
    Returns("impute_missing", p,
            [Copy(p, id) EXCEPT !.rows =
                [i \in DOMAIN p.rows |->
                    [p.rows[i] EXCEPT !.value =
                        Fill(p.rows, {j \in DOMAIN p.rows : p.rows[j].date = p.rows[i].date},
                             i, method)]]],
            <<>>)

\* ------------------------------------------------------------------ ICIR
\* the values an information coefficient takes here: missing, -1, 0 and 1
ICVals == {NaNQ, Rat(-1, 1), Rat(0, 1), Rat(1, 1)}

\* the IC frames: one row per date, columns "pearson" and "spearman"
ICFrames ==
    UNION {[1..n -> [pearson : ICVals, spearman : ICVals]] : n \in 0..MaxICs}

\* the entries of a series that skipna keeps
SkipNaN(series) == SelectSeq(series, LAMBDA v : ~IsNaNQ(v))

\* ic_s[c], a column of the frame
Column(frame, c) == [i \in DOMAIN frame |-> frame[i][c]]

RECURSIVE SeriesSum(_)
SeriesSum(series) ==
    IF series = <<>> THEN Rat(0, 1)
    ELSE RatAdd(Head(series), SeriesSum(Tail(series)))

\* Series.mean(): over the non-missing entries, not-a-number without any
SeriesMean(series) ==
    LET known == SkipNaN(series)
    IN  IF known = <<>> THEN NaNQ
        ELSE RatMul(SeriesSum(known), Rat(1, Len(known)))

\* Series.std() (ddof=1) over the non-missing entries, kept exact as its
\* square; not-a-number with fewer than 2 entries
StdSquared(series) ==
    LET known == SkipNaN(series)
        m == SeriesMean(known)
    IN  IF Len(known) < 2 THEN NaNQ
        ELSE RatMul(SeriesSum([i \in DOMAIN known |->
                        RatMul(RatSub(known[i], m), RatSub(known[i], m))]),
                    Rat(1, Len(known) - 1))

\* no ICIR computed
NoICIR == [kind |-> "absent", mean |-> NaNQ, squares |-> <<>>]

\* mean / std on numpy floats, std being the mean (skipna) of the roots of
\* `squares`: nothing is raised, x / 0 is an infinity, 0 / 0 and anything
\* with a not-a-number operand is not-a-number
FloatDivide(mean, squares) ==
    LET known == SkipNaN(squares)
        kind == IF IsNaNQ(mean) \/ known = <<>> THEN "nan"
                ELSE IF \E i \in DOMAIN known : known[i][1] # 0 THEN "finite"
                ELSE IF mean[1] > 0 THEN "inf"
                ELSE IF mean[1] < 0 THEN "-inf"
                ELSE "nan"
    IN  [kind |-> kind, mean |-> mean, squares |-> known]

\* Result.spearman_icir / Result.pearson_icir on the IC series of the object
ResultIcir(series) ==
    LET std == StdSquared(series)
    IN  IF ~IsNaNQ(std) /\ std[1] = 0
        THEN [kind |-> "ZeroDivisionError", mean |-> NaNQ, squares |-> <<>>]
        ELSE FloatDivide(SeriesMean(series), <<std>>)

\* the icir of _calculate_sort_ics and _calculate_regression_ics:
\* ic_s.mean().mean() / ic_s.std().mean()
FrameIcir(frame) ==
    FloatDivide(SeriesMean(<<SeriesMean(Column(frame, "pearson")),
                             SeriesMean(Column(frame, "spearman"))>>),
                <<StdSquared(Column(frame, "pearson")),
                  StdSquared(Column(frame, "spearman"))>>)

\* a row of _icir_table(ic_s): "ICs mean" / "std" of one column
IcirTable(frame, c) ==
    FloatDivide(SeriesMean(Column(frame, c)), <<StdSquared(Column(frame, c))>>)

ICIROps ==
    {"spearman_icir", "pearson_icir", "_calculate_sort_ics",
     "_calculate_regression_ics", "_icir_table.pearson", "_icir_table.spearman"}

ICIRNotCalled == [op \in ICIROps |-> NoICIR]

\* -------------------------------------------------------- ols_alpha_tstat
\* x=None
NoX == [given |-> FALSE, values |-> <<>>]

\* the arrays passed as y and x
Observations == UNION {[1..n -> RVals] : n \in 0..MaxObs}

NoOlsArgs == [y |-> <<>>, x |-> NoX, add_const |-> TRUE]

OlsNotCalled ==
    [state |-> "absent", error |-> "", alpha |-> NaNQ, stats |-> "", nobs |-> 0]

\* pd.Series(y).dropna().index
DropnaIndex(y) == {i \in DOMAIN y : y[i] # NaN}

\* res.params.iloc[0] of sm.OLS(yv, X).fit() (pinv): the constant when there
\* is one, the slope of x otherwise
OlsAlpha(y, xv, S, given, add_const) ==
    LET n == Cardinality(S)
        sx == SumOver(S, xv)
        sy == SumOver(S, y)
        sxx == SumOver(S, [i \in S |-> xv[i] * xv[i]])
        sxy == SumOver(S, [i \in S |-> xv[i] * y[i]])
        det == n * sxx - sx * sx
        c == sx \div n
    IN  IF ~given THEN Rat(sy, n)
        ELSE IF ~add_const THEN (IF sxx = 0 THEN Rat(0, 1) ELSE Rat(sxy, sxx))
        ELSE IF det # 0 THEN Rat(sy * sxx - sx * sxy, det)
        ELSE Rat(sy, n * (c * c + 1))

\* ols_alpha_tstat(y, x, add_const=add_const), x an array or None;
\* empty_exog is the error of a fit on an exog without columns. tstat, pvalue
\* and rsquared are kept as "nan" (the not-a-number-filled result) or "fit"
\* (whatever the statsmodels fit reports)
OlsAlphaTstat(y, x, add_const, empty_exog) ==
    LET index == DropnaIndex(y)
    IN  IF x.given /\ Len(x.values) # Cardinality(index)
        THEN [state |-> "raised", error |-> "ValueError", alpha |-> NaNQ,
              stats |-> "", nobs |-> 0]
        ELSE LET xv == [i \in index |->
                         IF x.given
                         THEN x.values[Cardinality({j \in index : j <= i})]
                         ELSE 0]
                 kept == {i \in index : xv[i] # NaN}
                 n == Cardinality(kept)
             IN  IF n < 3
                 THEN [state |-> "returned", error |-> "", alpha |-> NaNQ,
                       stats |-> "nan", nobs |-> n]
                 ELSE IF ~x.given /\ ~add_const
                 THEN [state |-> "raised", error |-> empty_exog, alpha |-> NaNQ,
                       stats |-> "", nobs |-> 0]
                 ELSE [state |-> "returned", error |-> "",
                       alpha |-> OlsAlpha(y, xv, kept, x.given, add_const),
                       stats |-> "fit", nobs |-> n]

\* --------------------------------------------------------------- actions
AscendingDates == [i \in 1..NDates |-> i]

\* nothing has been called yet
OutputsAbsent ==
    /\ changed = FALSE
    /\ factor_sort = NoObject
    /\ grouping = NotCalled
    /\ regression = RegressionNotCalled
    /\ factor_regression = NoRegressionObject
    /\ ic = ICNotCalled
    /\ reg_ics = RegressionICsNotCalled
    /\ baseline = ICNotCalled

\* nothing computed and no panel call made
\* no ICIR computation and no ols_alpha_tstat call made
NoStatistics ==
    /\ ic_s = <<>>
    /\ icirs = ICIRNotCalled
    /\ ols_args = NoOlsArgs
    /\ ols_result = OlsNotCalled
    /\ diagnostics = NoDiagnostics

Idle ==
    /\ OutputsAbsent
    /\ panel = NoPanel
    /\ outcome = NotRun
    /\ NoStatistics

\* the settings of the regression functions, where they are not used
DefaultRegression ==
    /\ regression_method = "OLS"
    /\ intercept = FALSE
    /\ weights = NoWeights

\* FactorSort(factor_data=..., stock_next_returns=..., group_number=...)
NewFactorSort ==
    /\ factor_sort.state = "absent"
    /\ factor_sort' = FactorSortCompute(factor_data, stock_next_returns, group_number)
    /\ UNCHANGED <<panel, outcome, statistics>>
    /\ UNCHANGED <<inputs, changed, grouping, regression, factor_regression, ic,
                   reg_ics, baseline>>

\* the caller changes the factor value of one asset at one timestamp and
\* constructs FactorSort again on the changed table
FactorSortOnChangedData ==
    /\ factor_sort.state # "absent"
    /\ ~changed
    /\ \E d \in Dates, a \in Assets, v \in FVals :
          /\ v # factor_data[d][a]
          /\ factor_data' = [factor_data EXCEPT ![d][a] = v]
          /\ factor_sort' = FactorSortCompute(factor_data', stock_next_returns,
                                               group_number)
    /\ changed' = TRUE
    /\ UNCHANGED <<panel, outcome, statistics>>
    /\ UNCHANGED <<stock_next_returns, group_number, data_dates,
                   rebalance_date_index, regression_method, intercept, weights,
                   grouping, regression, factor_regression, ic, reg_ics,
                   baseline>>

\* calculate_factor_return_grouping(data, target, prediction,
\*                                  rebalance_date_index, group_num)
CallGrouping ==
    /\ grouping.state = "absent"
    /\ grouping' = CalculateFactorReturnGrouping(factor_data, stock_next_returns,
                        data_dates, rebalance_date_index, group_number)
    /\ UNCHANGED <<panel, outcome, statistics>>
    /\ UNCHANGED <<inputs, changed, factor_sort, regression, factor_regression, ic,
                   reg_ics, baseline>>

\* calculate_factor_return_regression(data, target, prediction,
\*     rebalance_date_index, method, intercept, weights=...)
CallRegression ==
    /\ regression.state = "absent"
    /\ regression' = CalculateFactorReturnRegression(factor_data, stock_next_returns,
                          data_dates, rebalance_date_index, regression_method,
                          intercept, weights)
    /\ UNCHANGED <<panel, outcome, statistics>>
    /\ UNCHANGED <<inputs, changed, factor_sort, grouping, factor_regression, ic,
                   reg_ics, baseline>>

\* FactorRegression(factor_data=..., stock_next_returns=...,
\*                  regression_method=..., intercept=..., weights=...)
NewFactorRegression ==
    /\ factor_regression.state = "absent"
    /\ factor_regression' = FactorRegressionCompute(factor_data, stock_next_returns,
                                 regression_method, intercept, weights)
    /\ UNCHANGED <<panel, outcome, statistics>>
    /\ UNCHANGED <<inputs, changed, factor_sort, grouping, regression, ic,
                   reg_ics, baseline>>

\* calculate_ic_s(data, target, prediction, rebalance_date_index, method)
CallIC ==
    /\ ic.state = "absent"
    /\ \E method \in ICMethods \cup {"kendall"} :
           ic' = CalculateICs(factor_data, stock_next_returns, data_dates,
                              rebalance_date_index, method)
    /\ UNCHANGED <<panel, outcome, statistics>>
    /\ UNCHANGED <<inputs, changed, factor_sort, grouping, regression,
                   factor_regression, reg_ics, baseline>>

\* _compute_regression_ics_df(factor_regression)
CallRegressionICs ==
    /\ factor_regression.state = "built"
    /\ reg_ics.state = "absent"
    /\ reg_ics' = ComputeRegressionICs(factor_data, stock_next_returns)
    /\ UNCHANGED <<panel, outcome, statistics>>
    /\ UNCHANGED <<inputs, changed, factor_sort, grouping, regression,
                   factor_regression, ic, baseline>>

\* baseline_ic(panel, factor, label, method)
CallBaselineIC ==
    /\ baseline.state = "absent"
    /\ \E method \in ICMethods :
           baseline' = BaselineIC(factor_data, stock_next_returns, method)
    /\ UNCHANGED <<panel, outcome, statistics>>
    /\ UNCHANGED <<inputs, changed, factor_sort, grouping, regression,
                   factor_regression, ic, reg_ics>>

\* the caller changes one value of a date after the first, in either table,
\* and runs again, with the same settings, what it had run
RerunOnChangedLaterDate ==
    /\ ~changed
    /\ ic.state # "absent" \/ reg_ics.state # "absent" \/ baseline.state # "absent"
    /\ \E d \in Dates \ {1}, a \in Assets, v \in RVals, factor \in BOOLEAN :
           /\ v # (IF factor THEN factor_data[d][a] ELSE stock_next_returns[d][a])
           /\ factor_data' = IF factor THEN [factor_data EXCEPT ![d][a] = v]
                              ELSE factor_data
           /\ stock_next_returns' = IF factor THEN stock_next_returns
                                     ELSE [stock_next_returns EXCEPT ![d][a] = v]
    /\ changed' = TRUE
    /\ factor_regression' =
           IF factor_regression.state = "absent" THEN factor_regression
           ELSE FactorRegressionCompute(factor_data', stock_next_returns',
                    regression_method, intercept, weights)
    /\ ic' = IF ic.state = "absent" THEN ic
             ELSE CalculateICs(factor_data', stock_next_returns', data_dates,
                               rebalance_date_index, ic.method)
    /\ reg_ics' = IF reg_ics.state = "absent" THEN reg_ics
                  ELSE ComputeRegressionICs(factor_data', stock_next_returns')
    /\ baseline' = IF baseline.state = "absent" THEN baseline
                   ELSE BaselineIC(factor_data', stock_next_returns', baseline.method)
    /\ UNCHANGED <<panel, outcome, statistics>>
    /\ UNCHANGED <<group_number, data_dates, rebalance_date_index,
                   regression_method, intercept, weights, factor_sort, grouping,
                   regression>>

\* ------------------------------------------------------- specifications
\* FactorSort and calculate_factor_return_grouping on one panel
InitQuantile ==
    /\ factor_data \in [Dates -> [Assets -> FVals]]
    /\ \E row \in [Assets -> RVals] : stock_next_returns = [d \in Dates |-> row]
    /\ group_number \in Groups
    /\ data_dates = Dates
    /\ rebalance_date_index = AscendingDates
    /\ DefaultRegression
    /\ Idle

NextQuantile == NewFactorSort \/ CallGrouping

SpecQuantile == InitQuantile /\ [][NextQuantile]_vars

\* FactorSort constructed on a table, then on a table that differs in one cell
InitSortTwice ==
    /\ factor_data \in [Dates -> [Assets -> FVals]]
    /\ stock_next_returns = [d \in Dates |-> [a \in Assets |-> 0]]
    /\ group_number \in Groups
    /\ data_dates = Dates
    /\ rebalance_date_index = AscendingDates
    /\ DefaultRegression
    /\ Idle

NextSortTwice == NewFactorSort \/ FactorSortOnChangedData

SpecSortTwice == InitSortTwice /\ [][NextSortTwice]_vars

\* the strictly increasing maps from factor values to forward returns
IncreasingMaps ==
    {f \in [0..MaxVal -> 0..(MaxVal + 1)] :
        \A u, v \in 0..MaxVal : u < v => f[u] < f[v]}

\* FactorSort on a panel whose forward return is, at every date, the same
\* increasing function of the factor value (missing where the factor is)
InitMonotone ==
    /\ factor_data \in [Dates -> [Assets -> FVals]]
    /\ \E f \in IncreasingMaps :
           stock_next_returns =
               [d \in Dates |-> [a \in Assets |->
                   IF factor_data[d][a] = NaN THEN NaN ELSE f[factor_data[d][a]]]]
    /\ group_number \in Groups
    /\ data_dates = Dates
    /\ rebalance_date_index = AscendingDates
    /\ DefaultRegression
    /\ Idle

NextMonotone == NewFactorSort

SpecMonotone == InitMonotone /\ [][NextMonotone]_vars

\* FactorSort and FactorRegression on one panel with missing values in both
\* tables
InitMissing ==
    /\ factor_data \in [Dates -> [Assets -> RVals]]
    /\ \E row \in [Assets -> RVals] : stock_next_returns = [d \in Dates |-> row]
    /\ group_number \in Groups
    /\ data_dates = Dates
    /\ rebalance_date_index = AscendingDates
    /\ regression_method = "OLS"
    /\ intercept \in BOOLEAN
    /\ weights = NoWeights
    /\ Idle

NextMissing == NewFactorSort \/ NewFactorRegression

SpecMissing == InitMissing /\ [][NextMissing]_vars

\* a call made on a panel
CallLagByAsset ==
    /\ outcome.state = "absent"
    /\ \E columns \in SUBSET {"value", "x"}, periods \in 0..MaxPeriods :
           /\ outcome' = [args |-> [columns |-> columns, periods |-> periods]]
                            @@ LagByAsset(panel, columns, periods, panel.id + 1)
           /\ panel' = outcome'.caller
    /\ UNCHANGED <<inputs, changed, outputs, statistics>>

\* align_to_calendar(panel, trade_calendar, method=method)
CallAlignToCalendar ==
    /\ outcome.state = "absent"
    /\ \E calendar \in UNION {[1..n -> PanelDates] : n \in 0..MaxCalendar},
          method \in AlignMethods :
           /\ outcome' = [args |-> [calendar |-> calendar, method |-> method]]
                            @@ AlignToCalendar(panel, calendar, method, panel.id + 1)
           /\ panel' = outcome'.caller
    /\ UNCHANGED <<inputs, changed, outputs, statistics>>

\* standardize(data, "value")
CallStandardize ==
    /\ outcome.state = "absent"
    /\ outcome' = [args |-> [data_fields |-> "value"]] @@ Standardize(panel, panel.id + 1)
    /\ panel' = outcome'.caller
    /\ UNCHANGED <<inputs, changed, outputs, statistics>>

\* impute_missing(data, "value", method=method)
CallImputeMissing ==
    /\ outcome.state = "absent"
    /\ \E method \in ImputeMethods :
           /\ outcome' = [args |-> [method |-> method]]
                            @@ ImputeMissing(panel, method, panel.id + 1)
           /\ panel' = outcome'.caller
    /\ UNCHANGED <<inputs, changed, outputs, statistics>>

\* Pipeline(steps).transform(panel)
CallPipeline ==
    /\ outcome.state = "absent"
    /\ \E steps \in UNION {[1..n -> Steps] : n \in 0..MaxSteps} :
           /\ outcome' = [args |-> [steps |-> steps]] @@ PipelineTransform(panel, steps)
           /\ panel' = outcome'.caller
    /\ UNCHANGED <<inputs, changed, outputs, statistics>>

\* no factor evaluation in hand
NoEvaluation ==
    /\ factor_data = [d \in Dates |-> [a \in Assets |-> NaN]]
    /\ stock_next_returns = [d \in Dates |-> [a \in Assets |-> NaN]]
    /\ group_number = MaxGroups
    /\ data_dates = Dates
    /\ rebalance_date_index = AscendingDates
    /\ DefaultRegression
    /\ OutputsAbsent

\* the calls made on a caller's panel
InitPanel ==
    /\ NoEvaluation
    /\ \E rows \in PanelRows, names \in {CanonicalNames, <<"asset", "date">>} :
           panel = [id |-> 0, names |-> names, rows |-> rows]
    /\ outcome = NotRun
    /\ NoStatistics

NextPanel ==
    \/ CallLagByAsset
    \/ CallAlignToCalendar
    \/ CallStandardize
    \/ CallImputeMissing
    \/ CallPipeline

SpecPanel == InitPanel /\ [][NextPanel]_vars

\* the supplied weights: every asset weighted by its column number, with a
\* row for each date of the index
SuppliedWeights ==
    {[given |-> TRUE, index |-> D, row |-> [a \in Assets |-> a]] :
        D \in SUBSET Dates \ {{}}}

\* calculate_factor_return_regression and FactorRegression on one panel
InitRegression ==
    /\ factor_data \in [Dates -> [Assets -> RVals]]
    /\ \E row \in [Assets -> 0..MaxRet] : stock_next_returns = [d \in Dates |-> row]
    /\ group_number = MaxGroups
    /\ data_dates \in SUBSET Dates
    /\ rebalance_date_index = AscendingDates
    /\ regression_method \in Methods
    /\ intercept \in BOOLEAN
    /\ weights \in IF regression_method = "WLS"
                   THEN {NoWeights} \cup SuppliedWeights ELSE {NoWeights}
    /\ Idle

NextRegression == CallRegression \/ NewFactorRegression

SpecRegression == InitRegression /\ [][NextRegression]_vars

\* the IC functions on one panel whose dates start out with the same
\* cross-section
InitIC ==
    /\ \E x \in [Assets -> RVals] : factor_data = [d \in Dates |-> x]
    /\ \E y \in [Assets -> RVals] : stock_next_returns = [d \in Dates |-> y]
    /\ group_number = MaxGroups
    /\ data_dates = Dates
    /\ rebalance_date_index = AscendingDates
    /\ DefaultRegression
    /\ Idle

NextIC ==
    \/ CallIC
    \/ NewFactorRegression
    \/ CallRegressionICs
    \/ CallBaselineIC
    \/ RerunOnChangedLaterDate

SpecIC == InitIC /\ [][NextIC]_vars

\* result.spearman_icir, the object's spearman_ic being ic_s["spearman"]
CallSpearmanIcir ==
    /\ icirs["spearman_icir"].kind = "absent"
    /\ icirs' = [icirs EXCEPT !["spearman_icir"] = ResultIcir(Column(ic_s, "spearman"))]
    /\ UNCHANGED <<inputs, changed, outputs, panel, outcome, ic_s, ols_args, ols_result, diagnostics>>

\* result.pearson_icir, the object's pearson_ic being ic_s["pearson"]
CallPearsonIcir ==
    /\ icirs["pearson_icir"].kind = "absent"
    /\ icirs' = [icirs EXCEPT !["pearson_icir"] = ResultIcir(Column(ic_s, "pearson"))]
    /\ UNCHANGED <<inputs, changed, outputs, panel, outcome, ic_s, ols_args, ols_result, diagnostics>>

\* _calculate_sort_ics(factor_sort), _calculate_ics(...) being ic_s
CallCalculateSortIcs ==
    /\ icirs["_calculate_sort_ics"].kind = "absent"
    /\ icirs' = [icirs EXCEPT !["_calculate_sort_ics"] = FrameIcir(ic_s)]
    /\ UNCHANGED <<inputs, changed, outputs, panel, outcome, ic_s, ols_args, ols_result, diagnostics>>

\* _calculate_regression_ics(factor_regression), reg_ics_df being ic_s
CallCalculateRegressionIcs ==
    /\ icirs["_calculate_regression_ics"].kind = "absent"
    /\ icirs' = [icirs EXCEPT !["_calculate_regression_ics"] = FrameIcir(ic_s)]
    /\ UNCHANGED <<inputs, changed, outputs, panel, outcome, ic_s, ols_args, ols_result, diagnostics>>

\* _icir_table(ic_s)
CallIcirTable ==
    /\ icirs["_icir_table.pearson"].kind = "absent"
    /\ icirs' = [icirs EXCEPT !["_icir_table.pearson"] = IcirTable(ic_s, "pearson"),
                              !["_icir_table.spearman"] = IcirTable(ic_s, "spearman")]
    /\ UNCHANGED <<inputs, changed, outputs, panel, outcome, ic_s, ols_args, ols_result, diagnostics>>

\* the ICIR computations on one IC frame
InitICIR ==
    /\ NoEvaluation
    /\ panel = NoPanel
    /\ outcome = NotRun
    /\ ic_s \in ICFrames
    /\ icirs = ICIRNotCalled
    /\ ols_args = NoOlsArgs
    /\ ols_result = OlsNotCalled
    /\ diagnostics = NoDiagnostics

NextICIR ==
    \/ CallSpearmanIcir
    \/ CallPearsonIcir
    \/ CallCalculateSortIcs
    \/ CallCalculateRegressionIcs
    \/ CallIcirTable

SpecICIR == InitICIR /\ [][NextICIR]_vars

\* ols_alpha_tstat(y, x, add_const=add_const)
CallOlsAlphaTstat ==
    /\ ols_result.state = "absent"
    /\ \E empty_exog \in {"ValueError", "IndexError"} :
           ols_result' = OlsAlphaTstat(ols_args.y, ols_args.x, ols_args.add_const, empty_exog)
    /\ UNCHANGED <<inputs, changed, outputs, panel, outcome, ic_s, icirs, ols_args, diagnostics>>

\* one call of ols_alpha_tstat on arrays
InitOls ==
    /\ NoEvaluation
    /\ panel = NoPanel
    /\ outcome = NotRun
    /\ ic_s = <<>>
    /\ icirs = ICIRNotCalled
    /\ \E y \in Observations,
          x \in {NoX} \cup {[given |-> TRUE, values |-> v] : v \in Observations},
          add_const \in BOOLEAN :
           ols_args = [y |-> y, x |-> x, add_const |-> add_const]
    /\ ols_result = OlsNotCalled
    /\ diagnostics = NoDiagnostics

NextOls == CallOlsAlphaTstat

SpecOls == InitOls /\ [][NextOls]_vars

\* ensure_panel_index(df, date_col=date_col, sort=sort) on the caller's table
CallEnsurePanelIndex ==
    /\ outcome.state = "absent"
    /\ diagnostics.state = "absent"
    /\ \E date_col \in {"date", "day"}, sort \in BOOLEAN, duplicates \in {"raise", "keep"} :
           outcome' = [args |-> [date_col |-> date_col, sort |-> sort]]
                         @@ EnsurePanelIndex(panel, date_col, sort, duplicates, panel.id + 1)
    /\ UNCHANGED <<inputs, changed, outputs, panel, statistics>>

\* diagnose_panel(panel), panel being what ensure_panel_index returned
DiagnoseEnsured ==
    /\ outcome.op = "ensure_panel_index"
    /\ outcome.state = "returned"
    /\ diagnostics.state = "absent"
    /\ diagnostics' = DiagnosePanel(outcome.out)
    /\ UNCHANGED <<inputs, changed, outputs, panel, outcome, ic_s, icirs, ols_args,
                   ols_result>>

\* diagnose_panel(df.set_index(["date", "asset"])), the index levels renamed
\* or not
DiagnoseSetIndex ==
    /\ outcome.state = "absent"
    /\ diagnostics.state = "absent"
    /\ \E names \in {CanonicalNames, <<"wrong", "names">>} :
           diagnostics' = DiagnosePanel([id |-> panel.id + 1, names |-> names,
                                         rows |-> panel.rows])
    /\ UNCHANGED <<inputs, changed, outputs, panel, outcome, ic_s, icirs, ols_args,
                   ols_result>>

\* a flat table made into a panel and diagnosed
InitDiagnose ==
    /\ NoEvaluation
    /\ \E rows \in Tables : panel = [id |-> 0, names |-> <<>>, rows |-> rows]
    /\ outcome = NotRun
    /\ NoStatistics

NextDiagnose ==
    \/ CallEnsurePanelIndex
    \/ DiagnoseEnsured
    \/ DiagnoseSetIndex

SpecDiagnose == InitDiagnose /\ [][NextDiagnose]_vars

\* the rebalance date indexes: dates of the data, each at most once, in any
\* order
RebalanceOrders ==
    {rdi \in UNION {[1..n -> Dates] : n \in 0..NDates} :
        \A i, j \in DOMAIN rdi : rdi[i] = rdi[j] => i = j}

\* the per-date functions given the rebalance dates in any order
InitOrder ==
    /\ \E x \in [Assets -> RVals] : factor_data = [d \in Dates |-> x]
    /\ \E y \in [Assets -> RVals] : stock_next_returns = [d \in Dates |-> y]
    /\ group_number \in Groups
    /\ data_dates = Dates
    /\ rebalance_date_index \in RebalanceOrders
    /\ DefaultRegression
    /\ Idle

NextOrder ==
    \/ CallIC
    \/ CallGrouping
    \/ CallRegression
    \/ NewFactorRegression

SpecOrder == InitOrder /\ [][NextOrder]_vars

\* ---------------------------------------------------------------- claims
\* C1: quantile labels are computed independently within each date: two
\* factor tables with the same row at timestamp D get the same
\* FactorSort.group_labels at D, whatever the other timestamps contain.
C1_LabelsIndependentOfOtherDates ==
    [][\A D \in Dates :
        (/\ factor_sort.state = "built"
         /\ factor_sort'.state = "built"
         /\ factor_data'[D] = factor_data[D])
        => factor_sort'.group_labels[D] = factor_sort.group_labels[D]]_vars

NonMissing(row) == {a \in Assets : row[a] # NaN}

\* C2: quantile completeness: at every date with at least Q = group_number
\* non-missing factor values, group_labels uses each of the Q labels at least
\* once and labels every asset that has a factor value.
C2_QuantileCompleteness ==
    factor_sort.state = "built" =>
        \A d \in Dates :
            Cardinality(NonMissing(factor_data[d])) >= group_number =>
                /\ {factor_sort.group_labels[d][a] : a \in NonMissing(factor_data[d])}
                       = 1..group_number
                /\ \A a \in Assets : factor_data[d][a] = NaN
                       => factor_sort.group_labels[d][a] = NaN

\* C9: a date with fewer than Q non-missing factor values does not make
\* quantile bucketing raise (FactorSort, calculate_factor_return_grouping):
\* the bins without members at that date have a not-a-number mean return.
C9_FewObservationsDoNotRaise ==
    (\E d \in Dates : Cardinality(NonMissing(factor_data[d])) < group_number) =>
        /\ factor_sort.state \in {"absent", "built"}
        /\ grouping.state \in {"absent", "returned"}
        /\ factor_sort.state = "built" =>
              \A d \in Dates, g \in 1..group_number :
                  (\A a \in Assets : factor_sort.group_labels[d][a] # g)
                  => IsNaNQ(factor_sort.portfolio_next_returns[d][g])

\* mean forward return at a date of the assets that carry the label
BucketMean(labels, label, row) == MeanOver({a \in Assets : labels[a] = label}, row)

\* C10: at every date the long-short value (FactorSort.factor_next_returns,
\* the HML column of calculate_factor_return_grouping) is the mean forward
\* return of that date's top quantile minus that of its bottom quantile.
C10_LongShortIsTopMinusBottom ==
    /\ factor_sort.state = "built" =>
          \A d \in Dates :
              factor_sort.factor_next_returns[d]
                = RatSub(BucketMean(factor_sort.group_labels[d], group_number,
                                    stock_next_returns[d]),
                         BucketMean(factor_sort.group_labels[d], 1,
                                    stock_next_returns[d]))
    /\ grouping.state = "returned" =>
          \A i \in 1..Len(grouping.rows) :
              LET date == grouping.rows[i].date
                  lab == DateLabels(factor_data, date, group_number)
              IN  grouping.rows[i].HML
                    = RatSub(BucketMean(lab, group_number - 1, stock_next_returns[date]),
                             BucketMean(lab, 0, stock_next_returns[date]))

\* C4: an unknown regression method name makes calculate_factor_return_regression
\* and FactorRegression fail with the unknown-method error before any date is
\* processed, whatever the data: it is never left unreported and never raised
\* only after earlier dates were passed over.
C4_UnknownMethodFailsFast ==
    regression_method \notin KnownMethods =>
        /\ regression.state # "absent" =>
               /\ regression.state = "raised"
               /\ regression.error = "ValueError: Unknown regression method"
               /\ regression.processed = 0
        /\ factor_regression.state # "absent" =>
               /\ factor_regression.state = "raised"
               /\ factor_regression.error = "ValueError: Unknown regression_method"
               /\ factor_regression.processed = 0

\* the dates for which the caller gave no weights
Unweighted == {d \in Dates : ~weights.given \/ d \notin weights.index}

Regressed ==
    {i \in DOMAIN rebalance_date_index :
        /\ rebalance_date_index[i] \in data_dates
        /\ ValidObs(factor_data[rebalance_date_index[i]],
                    stock_next_returns[rebalance_date_index[i]]) # {}}

C6_WlsWithWeightsCompletes ==
    (/\ regression_method = "WLS"
     /\ weights.given
     /\ data_dates = Dates
     /\ regression.state # "absent") =>
        /\ regression.state = "returned"
        /\ \A i \in Regressed :
               \E j \in DOMAIN regression.rows :
                   /\ regression.rows[j].date = rebalance_date_index[i]
                   /\ regression.rows[j].factor_return =
                          LET d == rebalance_date_index[i]
                              S == ValidObs(factor_data[d], stock_next_returns[d])
                          IN  LeastSquares(factor_data[d], stock_next_returns[d],
                                  weights.row, S,
                                  intercept /\ AddsConstant(factor_data[d], S)).x

\* C7: a date with fewer than 2 observations valid in both the factor and the
\* forward return has no row at all, coefficient or not-a-number, in the factor
\* returns of calculate_factor_return_regression and of FactorRegression.
C7_FewObservationsDateExcluded ==
    \A d \in Dates :
        Cardinality(ValidObs(factor_data[d], stock_next_returns[d])) < 2 =>
            /\ regression.state = "returned" =>
                   \A j \in DOMAIN regression.rows : regression.rows[j].date # d
            /\ factor_regression.state = "built" =>
                   d \notin DOMAIN factor_regression.factor_next_returns

\* the entries of an IC series for one date
RowsOf(series, date) == SelectSeq(series, LAMBDA row : row.date = date)

\* C3: IC anti-lookahead. When the data is changed only at dates after D and
\* the IC is computed again, the value for date D is the same as before, in
\* calculate_ic_s (either method) and in both columns of
\* _compute_regression_ics_df.
C3_ICAntiLookahead ==
    [][\A D \in Dates :
          (\A d \in 1..D : /\ factor_data'[d] = factor_data[d]
                           /\ stock_next_returns'[d] = stock_next_returns[d]) =>
              /\ (ic.state = "returned" /\ ic'.state = "returned"
                      /\ ic'.method = ic.method) =>
                     RowsOf(ic'.rows, D) = RowsOf(ic.rows, D)
              /\ (reg_ics.state = "returned" /\ reg_ics'.state = "returned") =>
                     /\ reg_ics'.pearson[D] = reg_ics.pearson[D]
                     /\ reg_ics'.spearman[D] = reg_ics.spearman[D]]_vars

\* both IC functions have been run again after a change at the second date
\* that moved the second date's IC away from the first date's
C3_Witness ==
    /\ changed
    /\ factor_data[1] # factor_data[NDates] \/ stock_next_returns[1] # stock_next_returns[NDates]
    /\ ic.state = "returned"
    /\ RowsOf(ic.rows, 1) # <<>>
    /\ \A i \in DOMAIN RowsOf(ic.rows, NDates) :
           RowsOf(ic.rows, NDates)[i].ic # RowsOf(ic.rows, 1)[1].ic
    /\ reg_ics.state = "returned"
    /\ ~IsNaNQ(reg_ics.pearson[1])
    /\ reg_ics.pearson[NDates] # reg_ics.pearson[1]

\* C8: the IC series has one entry per date: a date with fewer than 2 rows
\* valid for both factor and label is in the series returned by calculate_ic_s
\* and by baseline_ic, with value not-a-number.
C8_OneEntryPerDate ==
    \A d \in Dates :
        /\ ic.state = "returned" =>
               /\ RowsOf(ic.rows, d) # <<>>
               /\ Cardinality(ValidObs(factor_data[d], stock_next_returns[d])) < 2 =>
                      \A i \in DOMAIN RowsOf(ic.rows, d) : IsNaNQ(RowsOf(ic.rows, d)[i].ic)
        /\ baseline.state = "returned" =>
               /\ RowsOf(baseline.rows, d) # <<>>
               /\ Cardinality(ValidObs(factor_data[d], stock_next_returns[d])) < 2 =>
                      \A i \in DOMAIN RowsOf(baseline.rows, d) :
                          IsNaNQ(RowsOf(baseline.rows, d)[i].ic)

\* at every date the forward return is an increasing function of the factor
IsIncreasingPanel ==
    \A d \in Dates : \A a, b \in NonMissing(factor_data[d]) :
        /\ stock_next_returns[d][a] # NaN
        /\ factor_data[d][a] < factor_data[d][b] =>
               stock_next_returns[d][a] < stock_next_returns[d][b]
        /\ factor_data[d][a] = factor_data[d][b] =>
               stock_next_returns[d][a] = stock_next_returns[d][b]

\* C11: long-short sign. On a panel whose forward return is an increasing
\* function of the factor at each date, and whose dates each have at least
\* group_number factor values, FactorSort.factor_next_returns is a
\* non-negative number at every date.
C11_LongShortNonNegative ==
    (/\ factor_sort.state = "built"
     /\ IsIncreasingPanel
     /\ \A d \in Dates : Cardinality(NonMissing(factor_data[d])) >= group_number) =>
        \A d \in Dates :
            /\ ~IsNaNQ(factor_sort.factor_next_returns[d])
            /\ factor_sort.factor_next_returns[d][1] >= 0

RECURSIVE RatSumOver(_, _)
\* the sum of the rationals f[a], a in S
RatSumOver(S, f) ==
    IF S = {} THEN Rat(0, 1)
    ELSE LET x == CHOOSE y \in S : TRUE IN RatAdd(f[x], RatSumOver(S \ {x}, f))

\* C12: missing values are excluded observations, never zeros. In FactorSort
\* an asset without a factor value at a date has no group there, and a group's
\* mean return is taken over its members that have a return. In
\* FactorRegression an observation missing the factor or the return has a
\* not-a-number residual, and the fit is the least-squares fit of the other
\* observations alone: their residuals are numbers, orthogonal to the factor
\* (and summing to zero when an intercept is fitted).
C12_MissingIsExcluded ==
    /\ factor_sort.state = "built" =>
          \A d \in Dates :
              /\ \A a \in Assets :
                     factor_data[d][a] = NaN => factor_sort.group_labels[d][a] = NaN
              /\ \A g \in 1..group_number :
                     LET members == {a \in Assets :
                                        /\ factor_sort.group_labels[d][a] = g
                                        /\ stock_next_returns[d][a] # NaN}
                     IN  factor_sort.portfolio_next_returns[d][g] =
                            IF members = {} THEN NaNQ
                            ELSE Rat(SumOver(members, stock_next_returns[d]),
                                     Cardinality(members))
    /\ factor_regression.state = "built" =>
          \A d \in Dates :
              LET S == {a \in Assets : factor_data[d][a] # NaN
                                         /\ stock_next_returns[d][a] # NaN}
                  res == factor_regression.residuals[d]
              IN  /\ \A a \in Assets \ S : IsNaNQ(res[a])
                  /\ Cardinality(S) >= 2 =>
                         /\ \A a \in S : ~IsNaNQ(res[a])
                         /\ RatSumOver(S, [a \in Assets |->
                                RatMul(Rat(factor_data[d][a], 1), res[a])]) = Rat(0, 1)
                         /\ intercept => RatSumOver(S, res) = Rat(0, 1)

\* both objects built on a panel where a group of two has one member without
\* a return and a fitted date has an observation left out
C12_Witness ==
    /\ factor_sort.state = "built"
    /\ factor_regression.state = "built"
    /\ \E d \in Dates, a, b \in Assets :
           /\ factor_sort.group_labels[d][a] # NaN
           /\ factor_sort.group_labels[d][a] = factor_sort.group_labels[d][b]
           /\ stock_next_returns[d][a] = NaN
           /\ stock_next_returns[d][b] > 0
    /\ \E d \in Dates, a \in Assets :
           /\ factor_data[d][a] = NaN
           /\ ~IsNaNQ(factor_regression.factor_next_returns[d])
           /\ factor_regression.factor_next_returns[d] # Rat(0, 1)

\* what step.transform(input) does, for a step of a Pipeline
StepResult(step, input) ==
    LagByAsset(input, step.columns, step.periods, input.id + 1)

\* C13: Pipeline.transform applies the steps in sequence. When it returns,
\* the transform calls made are those of steps 1, 2, ... each once and in
\* that order, the first on the caller's panel, each later one on what the
\* step before it returned, and the value returned is what the last step
\* returned.
C13_PipelineInSequence ==
    (outcome.op = "Pipeline.transform" /\ outcome.state = "returned") =>
        LET steps == outcome.args.steps
            calls == outcome.calls
            n == Len(steps)
        IN  /\ Len(calls) = n
            /\ \A i \in 1..n : calls[i].step = i
            /\ n >= 1 => calls[1].input = panel
            /\ \A i \in 1..(n - 1) :
                   calls[i + 1].input = StepResult(steps[i], calls[i].input).out
            /\ n >= 1 => outcome.out = StepResult(steps[n], calls[n].input).out

\* a pipeline of MaxSteps steps has returned a panel whose values are not
\* those of the caller's panel nor those its first step returned
C13_Witness ==
    /\ outcome.op = "Pipeline.transform"
    /\ outcome.state = "returned"
    /\ Len(outcome.args.steps) = MaxSteps
    /\ outcome.calls[MaxSteps].input.rows # panel.rows
    /\ outcome.out.rows # outcome.calls[MaxSteps].input.rows

\* C14: when a step of a Pipeline raises, Pipeline.transform raises that
\* same error, the raising step is the last one called, and nothing is
\* returned.
C14_PipelineAbortsOnError ==
    outcome.op = "Pipeline.transform" =>
        \A k \in DOMAIN outcome.calls :
            LET r == StepResult(outcome.args.steps[k], outcome.calls[k].input)
            IN  r.state = "raised" =>
                    /\ outcome.state = "raised"
                    /\ outcome.error = r.error
                    /\ Len(outcome.calls) = k
                    /\ outcome.out = NoPanel

\* the first of two steps raised KeyError and the second was not called
C14_Witness ==
    /\ outcome.op = "Pipeline.transform"
    /\ outcome.state = "raised"
    /\ outcome.error.type = "KeyError"
    /\ Len(outcome.args.steps) = MaxSteps
    /\ Len(outcome.calls) = 1

\* C15: no call mutates the caller's panel and every call returns a new
\* panel: when lag_by_asset, align_to_calendar, standardize or
\* Pipeline.transform (any number of steps, none included) returns, the
\* caller's panel is as it was before the call and the panel returned is
\* another object.
C15_NoMutationNewPanel ==
    [][(outcome.state = "absent" /\ outcome'.state = "returned") =>
          /\ panel' = panel
          /\ outcome'.out.id # panel.id]_vars

\* the value the panel holds for asset a at date d, not-a-number without a row
ValueAt(rows, d, a) ==
    LET at == {i \in DOMAIN rows : rows[i].date = d /\ rows[i].asset = a}
    IN  IF at = {} THEN NaN ELSE rows[CHOOSE i \in at : TRUE].value

\* the dates before d at which asset a has a row
EarlierDates(rows, d, a) ==
    {rows[i].date : i \in {j \in DOMAIN rows : rows[j].asset = a /\ rows[j].date < d}}

\* C18: after lag_by_asset(panel, columns, periods=k), k >= 1, on a panel
\* that passes validate_panel, in any row order, the lagged value at (d, a)
\* is asset a's value at its k-th previous date, or missing when the asset
\* has fewer than k earlier dates: never a value of date d or later.
C18_LagUsesEarlierDates ==
    (/\ outcome.op = "lag_by_asset"
     /\ outcome.state = "returned"
     /\ outcome.args.periods >= 1
     /\ "value" \in outcome.args.columns) =>
        \A i \in DOMAIN outcome.out.rows :
            LET row == outcome.out.rows[i]
                earlier == EarlierDates(panel.rows, row.date, row.asset)
                k == outcome.args.periods
            IN  row.value =
                    IF Cardinality(earlier) < k THEN NaN
                    ELSE ValueAt(panel.rows,
                                 Ascending(earlier)[Cardinality(earlier) - k + 1],
                                 row.asset)

\* C19: align_to_calendar with method='ffill' gives at (d, a) asset a's most
\* recent non-missing input value dated on or before d, whether or not its
\* date is a calendar date, and a missing value when the asset has none.
C19_FfillLastKnownValue ==
    (/\ outcome.op = "align_to_calendar"
     /\ outcome.state = "returned"
     /\ outcome.args.method = "ffill") =>
        \A i \in DOMAIN outcome.out.rows :
            LET row == outcome.out.rows[i]
                known == {d \in PanelDates :
                             d <= row.date /\ ValueAt(panel.rows, d, row.asset) # NaN}
            IN  row.value =
                    IF known = {} THEN NaN
                    ELSE ValueAt(panel.rows, CHOOSE d \in known : \A e \in known : e <= d,
                                 row.asset)

\* C20: align_to_calendar returns one row for each pair of a date of the
\* sorted, de-duplicated calendar and an asset present in the input, dates
\* ascending; with method='raw' a cell holds the input's value when the input
\* has the row and is missing otherwise, and no other row appears.
C20_AlignedIndexAndRawCells ==
    (outcome.op = "align_to_calendar" /\ outcome.state = "returned") =>
        LET out == outcome.out.rows
            calendar == {outcome.args.calendar[i] : i \in DOMAIN outcome.args.calendar}
            assets == {panel.rows[i].asset : i \in DOMAIN panel.rows}
        IN  /\ {<<out[i].date, out[i].asset>> : i \in DOMAIN out} = calendar \X assets
            /\ Len(out) = Cardinality(calendar) * Cardinality(assets)
            /\ \A i, j \in DOMAIN out : i < j => out[i].date <= out[j].date
            /\ outcome.args.method = "raw" =>
                   \A i \in DOMAIN out :
                       out[i].value = ValueAt(panel.rows, out[i].date, out[i].asset)

\* a raw alignment to a calendar given out of order, of a panel that has a
\* row outside the calendar, a row inside it, and a calendar cell without row
C20_Witness ==
    /\ outcome.op = "align_to_calendar"
    /\ outcome.state = "returned"
    /\ outcome.args.method = "raw"
    /\ Len(outcome.args.calendar) = MaxCalendar
    /\ outcome.args.calendar[1] > outcome.args.calendar[MaxCalendar]
    /\ \E i \in DOMAIN panel.rows :
           \A j \in DOMAIN outcome.args.calendar :
               panel.rows[i].date # outcome.args.calendar[j]
    /\ \E i \in DOMAIN outcome.out.rows : outcome.out.rows[i].value # NaN
    /\ \E i \in DOMAIN outcome.out.rows :
           \A j \in DOMAIN panel.rows :
               ~(/\ panel.rows[j].date = outcome.out.rows[i].date
                 /\ panel.rows[j].asset = outcome.out.rows[i].asset)

\* the column has at least two entries and they are all equal
ZeroStd(frame, c) ==
    LET std == StdSquared(Column(frame, c))
    IN  ~IsNaNQ(std) /\ std[1] = 0

\* C16: on an IC series whose standard deviation is exactly zero, every ICIR
\* computation either raises a named error or yields not-a-number, never an
\* infinite value, and all the computations make the same choice.
C16_ZeroStdICIRConsistent ==
    (ZeroStd(ic_s, "pearson") /\ ZeroStd(ic_s, "spearman")) =>
        LET kinds == {icirs[op].kind : op \in ICIROps} \ {"absent"}
        IN  kinds \subseteq {"ZeroDivisionError"} \/ kinds \subseteq {"nan"}

\* the observations that have both a value of y and, when x is given, a
\* value of x at the same position
PairedObservations(y, x) ==
    IF ~x.given THEN DropnaIndex(y)
    ELSE {i \in DOMAIN y \cap DOMAIN x.values : y[i] # NaN /\ x.values[i] # NaN}

\* C17: ols_alpha_tstat does not raise; alpha, tstat, pvalue and rsquared are
\* all not-a-number exactly when fewer than 3 valid paired observations
\* remain, and nobs is the number of observations that remained.
C17_OlsNaNFilledBelowThree ==
    ols_result.state # "absent" =>
        LET paired == Cardinality(PairedObservations(ols_args.y, ols_args.x))
        IN  /\ ols_result.state = "returned"
            /\ (IsNaNQ(ols_result.alpha) /\ ols_result.stats = "nan") <=> paired < 3
            /\ ols_result.nobs = paired

\* the non-missing values an input panel holds at the date of its row i
CrossSection(rows, i) ==
    LET same == SelectSeq(rows, LAMBDA r : r.date = rows[i].date /\ r.value # NaN)
    IN  [j \in DOMAIN same |-> Rat(same[j].value, 1)]

C22_DuplicateKeysRejected ==
    /\ (outcome.op = "ensure_panel_index" /\ ~UniqueKeys(panel.rows)) =>
           (outcome.state = "raised" /\ outcome.error.type = "SchemaError")
    /\ (outcome.op = "ensure_panel_index" /\ outcome.state = "returned") =>
           UniqueKeys(outcome.out.rows)
    /\ (outcome.op = "ensure_panel_index" /\ diagnostics.state = "returned") =>
           ~diagnostics.has_duplicates

\* the kinds of the warnings of a diagnosis
WarningKinds(d) == {d.warnings[i].kind : i \in DOMAIN d.warnings}

\* the (date, asset) keys never decrease along the rows
NonDecreasing(rows) ==
    \A i, j \in DOMAIN rows : i < j => ~KeyLess(rows[j], rows[i])

\* more than half of the values of the column are missing
MostlyMissing(rows) ==
    2 * Cardinality({i \in DOMAIN rows : rows[i].value = NaN}) > Len(rows)

\* the flags of a diagnosis are exact and each defect has its own warning
FlagsExact(d) ==
    /\ d.is_valid_index <=> d.of.names = <<"date", "asset">>
    /\ d.has_duplicates <=> ~UniqueKeys(d.of.rows)
    /\ d.is_sorted <=> NonDecreasing(d.of.rows)
    /\ "index" \in WarningKinds(d) <=> ~d.is_valid_index
    /\ "sorted" \in WarningKinds(d) <=> ~d.is_sorted
    /\ "duplicates" \in WarningKinds(d) <=> d.has_duplicates
    /\ "missing" \in WarningKinds(d) <=> MostlyMissing(d.of.rows)

\* a valid, sorted, duplicate-free panel with no column mostly missing
CleanPanel(p) ==
    /\ p.names = <<"date", "asset">>
    /\ NonDecreasing(p.rows)
    /\ UniqueKeys(p.rows)
    /\ ~MostlyMissing(p.rows)

\* the counts of a diagnosis are those of its panel
CountsExact(d) ==
    /\ d.n_rows = Len(d.of.rows)
    /\ d.n_dates = Cardinality({d.of.rows[i].date : i \in DOMAIN d.of.rows})
    /\ d.n_assets = Cardinality({d.of.rows[i].asset : i \in DOMAIN d.of.rows})

DailyWithLongGap(rows) ==
    LET diffs == DateDiffs(rows)
    IN  /\ diffs # <<>>
        /\ DoubledMedian(diffs) = 2
        /\ \E i \in DOMAIN diffs : diffs[i] > GapDays

DateAscending(rows) ==
    \A i, j \in DOMAIN rows : i < j => rows[i].date < rows[j].date

\* C23: the per-date series returned by calculate_ic_s,
\* calculate_factor_return_regression, calculate_factor_return_grouping and
\* FactorRegression are in ascending date order, also when
\* rebalance_date_index is given in another order.
C23_SeriesDateAscending ==
    /\ ic.state = "returned" => DateAscending(ic.rows)
    /\ regression.state = "returned" => DateAscending(regression.rows)
    /\ grouping.state = "returned" => DateAscending(grouping.rows)
    /\ factor_regression.state = "built" =>
           DOMAIN factor_regression.factor_next_returns = Dates

\* C24: for any rebalance_date_index, also one with dates that data lacks,
\* calculate_factor_return_regression returns without error a frame indexed
\* by rebalance dates in which each row holds the coefficient fitted on its
\* own date: the list of coefficients has one entry per rebalance date.
C24_SkippedDateKeepsAlignment ==
    regression_method = "OLS" =>
        /\ regression.state # "absent" => regression.state = "returned"
        /\ regression.state = "returned" =>
               \A i \in DOMAIN regression.rows :
                   LET d == regression.rows[i].date
                       S == ValidObs(factor_data[d], stock_next_returns[d])
                   IN  /\ \E j \in DOMAIN rebalance_date_index :
                              rebalance_date_index[j] = d
                       /\ regression.rows[i].factor_return =
                              LeastSquares(factor_data[d], stock_next_returns[d],
                                  UnitWeights, S,
                                  intercept /\ AddsConstant(factor_data[d], S)).x

\* C25: a constructed FactorRegression keeps one regression result per
\* timestamp of factor_data, in timestamp order: regression_fits[i] is the fit
\* of the i-th timestamp and the list is as long as factor_next_returns,
\* intercept_values and residuals, also when a timestamp has fewer than 2
\* valid observations.
C25_OneFitPerTimestamp ==
    factor_regression.state = "built" =>
        /\ Len(factor_regression.regression_fits) = NDates
        /\ \A i \in DOMAIN factor_regression.regression_fits :
               factor_regression.regression_fits[i] = AscendingDates[i]
        /\ Len(factor_regression.regression_fits)
               = Cardinality(DOMAIN factor_regression.factor_next_returns)
        /\ Len(factor_regression.regression_fits)
               = Cardinality(DOMAIN factor_regression.intercept_values)
        /\ Len(factor_regression.regression_fits)
               = Cardinality(DOMAIN factor_regression.residuals)

\* C26: ols_alpha_tstat(y, x) with y and x of equal length pairs y[i] with
\* x[i], removes a pair when either value is missing, and returns a result,
\* never raising, also when y has missing values and x is a plain array.
C26_EqualLengthPairsByPosition ==
    (/\ ols_result.state # "absent"
     /\ ols_args.x.given
     /\ Len(ols_args.x.values) = Len(ols_args.y)) =>
        LET paired == PairedObservations(ols_args.y, ols_args.x)
        IN  /\ ols_result.state = "returned"
            /\ ols_result.nobs = Cardinality(paired)
            /\ Cardinality(paired) >= 3 =>
                   ols_result.alpha = OlsAlpha(ols_args.y, ols_args.x.values, paired,
                                               TRUE, ols_args.add_const)

IsMedian(v, series) ==
    LET below == {j \in DOMAIN series : RatSub(series[j], v)[1] < 0}
        above == {j \in DOMAIN series : RatSub(series[j], v)[1] > 0}
    IN  /\ 2 * Cardinality(below) <= Len(series)
        /\ 2 * Cardinality(above) <= Len(series)
        /\ \E j, k \in DOMAIN series :
               /\ RatAdd(series[j], series[k]) = RatAdd(v, v)
               /\ \A l \in DOMAIN series :
                      ~(/\ RatSub(series[l], series[j])[1] * RatSub(series[l], series[k])[1] < 0)

C30_AlignIdempotent ==
    (/\ outcome.op = "align_to_calendar"
     /\ outcome.state = "returned"
     /\ UniqueKeys(panel.rows)) =>
        LET again == AlignToCalendar(outcome.out, outcome.args.calendar,
                                     outcome.args.method, outcome.out.id + 1)
        IN  /\ again.state = "returned"
            /\ again.out.names = outcome.out.names
            /\ again.out.rows = outcome.out.rows

\* an alignment with ffill to a calendar of two dates, of a panel with two
\* assets, has filled a missing value forward
C30_Witness ==
    /\ outcome.op = "align_to_calendar"
    /\ outcome.state = "returned"
    /\ outcome.args.method = "ffill"
    /\ Len(outcome.args.calendar) = MaxCalendar
    /\ Len(outcome.out.rows) = 4
    /\ \E i \in DOMAIN outcome.out.rows :
           /\ outcome.out.rows[i].value # NaN
           /\ ValueAt(panel.rows, outcome.out.rows[i].date, outcome.out.rows[i].asset) = NaN

====
